---------------------------- MODULE Spec2Model ----------------------------
(***************************************************************************)
(* Model of parge, a lexer generator: rules -> alphabet -> epsilon-NFA ->  *)
(* DFA (src/src/lexer.rs), and of the lexers emitted from the DFA by       *)
(* src/src/codegen/cpp.rs and src/src/codegen/java.rs.                     *)
(*                                                                         *)
(* Conventions.  Code points and state indices are the numbers the code    *)
(* uses (state indices are 0-based; the TLA+ sequence holding the states   *)
(* keeps state i at position i+1).  A range is a pair <<lo, hi>>.          *)
(* Option<SmolStr> is a string, None being the value None below.           *)
(***************************************************************************)
EXTENDS Integers, Sequences, FiniteSets, TLC

VARIABLES
    overflow_checks,  \* build profile: TRUE panics on u32 overflow (debug), FALSE wraps (release)
    hash_order,       \* iteration order the HashSet of ranged edges happens to have
    rules,            \* the Vec<Rule> handed to Lexer::from_rules
    pc,               \* position in main / from_rules
    alphabet,         \* Vec<(u32, u32)> returned by construct_alphabet
    nfa,              \* NFA returned by construct_nfa
    powersets,        \* Vec<BTreeSet<usize>> of from_rules
    connections,      \* Vec<Connection> of from_rules
    stack,            \* activations of powerset_construction, innermost last
    dfa,              \* the DFA of the returned Lexer
    result,           \* outcome of from_rules: "None" (running), "Ok", "Err", "Panic"
    trap,             \* codegen: index of the state labelled _TRAP
    lang,             \* generated lexer: "cpp" or "java"
    input,            \* the code points of the stream the Lexer is constructed over
    contents,         \* generated lexer: code points not yet read from the stream
    buf,              \* generated lexer: this->buf / this.buf
    lx,               \* generated lexer: position and locals of the next() call
    tokens            \* tokens returned so far, <<token, lexeme>> each

vars == <<overflow_checks, hash_order, rules, pc, alphabet, nfa, powersets,
          connections, stack, dfa, result, trap, lang, input, contents, buf, lx, tokens>>

-----------------------------------------------------------------------------
(* Program constants *)

\* char::MAX as u32
MAX_CODEPOINT == 1114111

\* Stand-in for u32::MAX, the value 0u32 - 1 wraps to when overflow checks are
\* off.  TLC integers are 32-bit signed, so 4294967295 itself cannot be
\* written; the code only compares the value with code points and stores it,
\* and every code point is below either number.
U32_MAX == 2147483647

None == "<None>"
TRAP == "_TRAP"

-----------------------------------------------------------------------------
(* Element (src/src/rules.rs) *)

RuleRef(var, name) == [kind |-> "Rule", var |-> var, name |-> name]
Literal(lit) == [kind |-> "Literal", lit |-> lit]
SetOf(chars, ranges) == [kind |-> "Set", chars |-> chars, ranges |-> ranges]
NegatedSet(chars, ranges) == [kind |-> "NegatedSet", chars |-> chars, ranges |-> ranges]
OneOrMore(inner) == [kind |-> "OneOrMore", inner |-> inner]
ZeroOrMore(inner) == [kind |-> "ZeroOrMore", inner |-> inner]
Optional(inner) == [kind |-> "Optional", inner |-> inner]
Alternatives(subelems) == [kind |-> "Alternatives", subelems |-> subelems]
Group(subelems) == [kind |-> "Group", subelems |-> subelems]

\* parse_token: a terminal rule, its elements wrapped in one Group
Token(name, elements) ==
    [is_terminal |-> TRUE, name |-> name, element |-> Group(elements)]

\* parse_nonterminal: a non-terminal rule, its elements wrapped in one Group
Nonterm(name, elements) ==
    [is_terminal |-> FALSE, name |-> name, element |-> Group(elements)]

\* variant of the filter: every rule is passed on
all_rules(rs) == rs

\* rules.iter().filter(|rule| rule.is_terminal)
Terminals(rs) == SelectSeq(rs, LAMBDA r : r.is_terminal)

-----------------------------------------------------------------------------
(* Helpers for ordered collections *)

Range(s) == {s[i] : i \in DOMAIN s}

PairLess(p, q) == p[1] < q[1] \/ (p[1] = q[1] /\ p[2] < q[2])

\* iteration order of a BTreeSet<u32>
RECURSIVE SortedInts(_)
SortedInts(S) ==
    IF S = {} THEN <<>>
    ELSE LET m == CHOOSE x \in S : \A y \in S : x <= y
         IN <<m>> \o SortedInts(S \ {m})

\* iteration order of a BTreeSet<(u32, u32)>
RECURSIVE SortedPairs(_)
SortedPairs(S) ==
    IF S = {} THEN <<>>
    ELSE LET m == CHOOSE x \in S : \A y \in S : x = y \/ PairLess(x, y)
         IN <<m>> \o SortedPairs(S \ {m})

Reverse(s) == [i \in 1..Len(s) |-> s[Len(s) + 1 - i]]

\* iter().position(..), given the set of the (1-based) positions that satisfy
\* the predicate: 0-based index of the first of them, -1 for None
Position(hits) ==
    IF hits = {} THEN -1 ELSE (CHOOSE i \in hits : \A j \in hits : i <= j) - 1

-----------------------------------------------------------------------------
(* Alphabet builder *)

\* what the traversal leaves in raw_ranges when it reaches the arm
\* _ => panic!() (no pair of chars)
PanicRange == <<-1, -1>>

RECURSIVE get_ranges_from_element(_)
RECURSIVE get_ranges_from_elements(_)
get_ranges_from_elements(subelems) ==
    IF subelems = <<>> THEN {}
    ELSE get_ranges_from_element(Head(subelems))
            \cup get_ranges_from_elements(Tail(subelems))

get_ranges_from_element(element) ==
    CASE element.kind \in {"Set", "NegatedSet"} ->
            {<<c, c>> : c \in Range(element.chars)} \cup Range(element.ranges)
      [] element.kind = "Literal" ->
            {<<c, c>> : c \in Range(element.lit)}
      [] element.kind \in {"OneOrMore", "ZeroOrMore", "Optional"} ->
            get_ranges_from_element(element.inner)
      [] element.kind \in {"Alternatives", "Group"} ->
            get_ranges_from_elements(element.subelems)
      [] OTHER -> {PanicRange}

\* raw_ranges of construct_alphabet
RECURSIVE raw_ranges_of(_)
raw_ranges_of(rs) ==
    IF rs = <<>> THEN {}
    ELSE get_ranges_from_element(Head(rs).element) \cup raw_ranges_of(Tail(rs))

\* variant: the upper ends of the ranges are not taken as break points
range_points_lo_only(rs) == SortedInts({r[1] : r \in raw_ranges_of(rs) \ {PanicRange}})

range_points(rs) ==
    SortedInts({r[1] : r \in raw_ranges_of(rs) \ {PanicRange}}
                  \cup {r[2] : r \in raw_ranges_of(rs) \ {PanicRange}})

\* point - 1 on u32 with overflow checks off
WrappingPred(point) == IF point = 0 THEN U32_MAX ELSE point - 1

\* the for loop of construct_alphabet over range_points, from index i on;
\* st = [ranges, prev, panic]
RECURSIVE alphabet_loop(_, _, _, _)
alphabet_loop(points, i, st, checks) ==
    IF i > Len(points) THEN st
    ELSE LET point == points[i]
             r1 == st.ranges \cup {<<st.prev, st.prev>>}
             pm1 == WrappingPred(point)
             r2 == IF st.prev + 1 <= pm1 THEN r1 \cup {<<st.prev + 1, pm1>>} ELSE r1
             r3 == r2 \cup {<<point, point>>}
         IN IF point = 0 /\ checks
            THEN [st EXCEPT !.ranges = r1, !.panic = TRUE]
            ELSE alphabet_loop(points, i + 1,
                               [ranges |-> r3, prev |-> point, panic |-> FALSE], checks)

\* construct_alphabet: [panic, alphabet]
construct_alphabet(rs, checks) ==
    LET st == alphabet_loop(range_points(rs), 1,
                            [ranges |-> {}, prev |-> 0, panic |-> FALSE], checks)
        ranges == IF st.prev + 1 <= MAX_CODEPOINT
                  THEN st.ranges \cup {<<st.prev + 1, MAX_CODEPOINT>>}
                  ELSE st.ranges
    IN IF st.panic \/ PanicRange \in raw_ranges_of(rs)
       THEN [panic |-> TRUE, alphabet |-> <<>>]
       ELSE [panic |-> FALSE, alphabet |-> SortedPairs(ranges)]

-----------------------------------------------------------------------------
(* NFA builder *)

Epsilon(a, b) == [kind |-> "Epsilon", range |-> <<>>, a |-> a, b |-> b]
Connection(range, a, b) == [kind |-> "Connection", range |-> range, a |-> a, b |-> b]

\* NFA::new
NFA_new == [states |-> <<None>>, entry |-> 0, connections |-> <<>>, panic |-> FALSE]

\* NFA::add pushes the state; the index it returns is NextIndex of the old NFA
NextIndex(n) == Len(n.states)
NFA_add(n, accepting) == [n EXCEPT !.states = Append(@, accepting)]
NFA_add_empty(n) == NFA_add(n, None)
NFA_connect_range(n, start, end, range) ==
    [n EXCEPT !.connections = Append(@, Connection(range, start, end))]
NFA_connect_epsilon(n, start, end) ==
    [n EXCEPT !.connections = Append(@, Epsilon(start, end))]

RECURSIVE NFA_connect_ranges(_, _, _, _)
NFA_connect_ranges(n, start, end, rangeseq) ==
    IF rangeseq = <<>> THEN n
    ELSE NFA_connect_ranges(NFA_connect_range(n, start, end, Head(rangeseq)),
                            start, end, Tail(rangeseq))

\* for connection in connections (a HashSet): some order
HashIter(S, order) == IF order = "asc" THEN SortedPairs(S) ELSE Reverse(SortedPairs(S))

\* &alphabet[start_index..end_index] for one user range: [panic, ranges]
RangeSlice(alpha, range) ==
    LET start_index == Position({i \in DOMAIN alpha : alpha[i][1] = range[1]})
        end_pos == Position({i \in DOMAIN alpha : alpha[i][2] = range[2]})
        end_index == end_pos + 1
    IN IF start_index = -1 \/ end_pos = -1 \/ start_index > end_index
       THEN [panic |-> TRUE, ranges |-> {}]
       ELSE [panic |-> FALSE, ranges |-> {alpha[k] : k \in (start_index + 1)..end_index}]

RangeSlices(alpha, ranges) ==
    [panic |-> \E i \in DOMAIN ranges : RangeSlice(alpha, ranges[i]).panic,
     ranges |-> UNION {RangeSlice(alpha, ranges[i]).ranges : i \in DOMAIN ranges}]

Panicked(n) == [nfa |-> [n EXCEPT !.panic = TRUE], entry |-> 0, exit |-> 0]

\* the chain of a Literal after its first character
RECURSIVE literal_chain(_, _, _, _)
literal_chain(n, lit, k, prev) ==
    IF k > Len(lit) THEN [nfa |-> n, exit |-> prev]
    ELSE LET end == NextIndex(n)
             n1 == NFA_connect_range(NFA_add_empty(n), prev, end, <<lit[k], lit[k]>>)
         IN literal_chain(n1, lit, k + 1, end)

RECURSIVE connect_element(_, _, _, _)
RECURSIVE connect_group_rest(_, _, _, _, _, _)
RECURSIVE connect_alternatives(_, _, _, _, _, _, _)

\* subelems[k..] of a Group, each chained by an epsilon edge from the exit o
\* of its predecessor; returns the exit of the last
connect_group_rest(n, alpha, order, subelems, k, o) ==
    IF k > Len(subelems) THEN [nfa |-> n, exit |-> o]
    ELSE LET f == connect_element(n, alpha, order, subelems[k])
         IN IF f.nfa.panic THEN [nfa |-> f.nfa, exit |-> 0]
            ELSE connect_group_rest(NFA_connect_epsilon(f.nfa, o, f.entry),
                                    alpha, order, subelems, k + 1, f.exit)

connect_alternatives(n, alpha, order, subelems, k, entry, exit) ==
    IF k > Len(subelems) THEN n
    ELSE LET f == connect_element(n, alpha, order, subelems[k])
         IN IF f.nfa.panic THEN f.nfa
            ELSE connect_alternatives(
                    NFA_connect_epsilon(NFA_connect_epsilon(f.nfa, entry, f.entry),
                                        f.exit, exit),
                    alpha, order, subelems, k + 1, entry, exit)

\* connect_element: [nfa, entry, exit]; nfa.panic is set when the call panics
connect_element(n, alpha, order, element) ==
    CASE element.kind = "Group" ->
            IF Len(element.subelems) = 0 THEN Panicked(n)
            ELSE IF Len(element.subelems) = 1
            THEN connect_element(n, alpha, order, element.subelems[1])
            ELSE LET f == connect_element(n, alpha, order, element.subelems[1])
                     g == connect_group_rest(f.nfa, alpha, order, element.subelems, 2, f.exit)
                 IN IF f.nfa.panic THEN f
                    ELSE [nfa |-> g.nfa, entry |-> f.entry, exit |-> g.exit]
      [] element.kind = "Set" ->
            LET entry == NextIndex(n)
                exit == entry + 1
                n2 == NFA_add_empty(NFA_add_empty(n))
                sl == RangeSlices(alpha, element.ranges)
                conns == {<<c, c>> : c \in Range(element.chars)} \cup sl.ranges
            IN IF sl.panic THEN Panicked(n2)
               ELSE [nfa |-> NFA_connect_ranges(n2, entry, exit, HashIter(conns, order)),
                     entry |-> entry, exit |-> exit]
      [] element.kind = "Alternatives" ->
            LET entry == NextIndex(n)
                exit == entry + 1
                n2 == NFA_add_empty(NFA_add_empty(n))
            IN [nfa |-> connect_alternatives(n2, alpha, order, element.subelems, 1, entry, exit),
                entry |-> entry, exit |-> exit]
      [] element.kind = "OneOrMore" ->
            LET f == connect_element(n, alpha, order, element.inner)
            IN IF f.nfa.panic THEN f
               ELSE [f EXCEPT !.nfa = NFA_connect_epsilon(f.nfa, f.exit, f.entry)]
      [] element.kind = "ZeroOrMore" ->
            LET f == connect_element(n, alpha, order, element.inner)
            IN IF f.nfa.panic THEN f
               ELSE [f EXCEPT !.nfa = NFA_connect_epsilon(
                                         NFA_connect_epsilon(f.nfa, f.exit, f.entry),
                                         f.entry, f.exit)]
      [] element.kind = "Rule" -> Panicked(n)
      [] element.kind = "NegatedSet" ->
            LET entry == NextIndex(n)
                exit == entry + 1
                n2 == NFA_add_empty(NFA_add_empty(n))
                sl == RangeSlices(alpha, element.ranges)
                conns == (Range(alpha) \ {<<c, c>> : c \in Range(element.chars)}) \ sl.ranges
            IN IF sl.panic THEN Panicked(n2)
               ELSE [nfa |-> NFA_connect_ranges(n2, entry, exit, HashIter(conns, order)),
                     entry |-> entry, exit |-> exit]
      [] element.kind = "Literal" ->
            LET start == NextIndex(n)
                n1 == NFA_add_empty(n)
                end == NextIndex(n1)
                n2 == NFA_connect_range(NFA_add_empty(n1), start, end,
                                        <<element.lit[1], element.lit[1]>>)
                ch == literal_chain(n2, element.lit, 2, end)
            IN IF Len(element.lit) = 0 THEN Panicked(n1)
               ELSE [nfa |-> ch.nfa, entry |-> start, exit |-> ch.exit]
      [] element.kind = "Optional" ->
            LET f == connect_element(n, alpha, order, element.inner)
            IN IF f.nfa.panic THEN f
               ELSE [f EXCEPT !.nfa = NFA_connect_epsilon(f.nfa, f.entry, f.exit)]

\* the for loop of construct_nfa over the rules from index k on
RECURSIVE construct_nfa_loop(_, _, _, _, _)
construct_nfa_loop(n, rs, k, alpha, order) ==
    IF k > Len(rs) \/ n.panic THEN n
    ELSE LET exit == NextIndex(n)
             n1 == NFA_add(n, rs[k].name)
             f == connect_element(n1, alpha, order, rs[k].element)
             n2 == NFA_connect_epsilon(
                      NFA_connect_epsilon(f.nfa, f.nfa.entry, f.entry), f.exit, exit)
         IN IF f.nfa.panic THEN f.nfa
            ELSE construct_nfa_loop(n2, rs, k + 1, alpha, order)

construct_nfa(rs, alpha, order) == construct_nfa_loop(NFA_new, rs, 1, alpha, order)

-----------------------------------------------------------------------------
(* DFA builder *)

\* epsilon_closure: the scan of nfa.connections from index i on.  At the first
\* epsilon edge that leaves the set for a state outside it, the state is
\* inserted, the whole scan is run on the grown set (the recursive call), and
\* the interrupted scan goes on behind that edge.
RECURSIVE epsilon_closure_scan(_, _, _)
epsilon_closure_scan(n, connected, i) ==
    LET hits == {j \in i..Len(n.connections) :
                    /\ n.connections[j].kind = "Epsilon"
                    /\ n.connections[j].a \in connected
                    /\ n.connections[j].b \notin connected}
        first == CHOOSE j \in hits : \A k \in hits : j <= k
    IN IF hits = {} THEN connected
       ELSE epsilon_closure_scan(
                n, epsilon_closure_scan(n, connected \cup {n.connections[first].b}, 1),
                first + 1)

\* variant: one pass over the epsilon edges that leave the set as given
epsilon_closure_one_pass(n, connected) ==
    connected \cup {n.connections[j].b : j \in
        {i \in DOMAIN n.connections :
            n.connections[i].kind = "Epsilon" /\ n.connections[i].a \in connected}}

epsilon_closure(n, connected) == epsilon_closure_scan(n, connected, 1)

\* variant: the targets of every ranged edge labelled arange, whether or not
\* it leaves a member of the subset
transition_targets_any_source(n, subset, arange) ==
    {n.connections[i].b : i \in
        {j \in DOMAIN n.connections :
            /\ n.connections[j].kind = "Connection"
            /\ n.connections[j].range = arange}}

\* variant: the scan of nfa.connections stops at the first ranged edge that
\* leaves a member of the subset
transition_targets_first_edge(n, subset, arange) ==
    LET leaving == {j \in DOMAIN n.connections :
                       n.connections[j].a \in subset /\ n.connections[j].kind = "Connection"}
        first == CHOOSE j \in leaving : \A k \in leaving : j <= k
    IN IF leaving = {} THEN {}
       ELSE IF n.connections[first].range = arange THEN {n.connections[first].b}
       ELSE {}

\* the inner loop of powerset_construction: targets of the ranged edges
\* labelled arange that leave a member of the subset
transition_targets(n, subset, arange) ==
    {n.connections[i].b : i \in
        {j \in DOMAIN n.connections :
            /\ n.connections[j].a \in subset
            /\ n.connections[j].kind = "Connection"
            /\ n.connections[j].range = arange}}

DfaConnection(range, start, end) == [range |-> range, start |-> start, end |-> end]

\* one activation of powerset_construction: its start_closure, the index ai
\* (1-based) of the alphabet interval its for loop is at, and pos, the subset
\* index it has recursed on and not yet connected (-1: none)
Frame(start_closure, ai, pos) == [start_closure |-> start_closure, ai |-> ai, pos |-> pos]

Top(stk) == stk[Len(stk)]
Pop(stk) == SubSeq(stk, 1, Len(stk) - 1)
ReplaceTop(stk, f) == Append(Pop(stk), f)

\* variant: the lookup never finds the subset
never_registered(pss, tc) == -1

\* powersets.iter().position(|c| c == &transition_closure) (-1: None)
registered_position(pss, tc) == Position({i \in DOMAIN pss : pss[i] = tc})

\* transition_closure of the for loop's body
transition_closure(n, pss, start_closure, arange) ==
    epsilon_closure(n, transition_targets(n, pss[start_closure + 1], arange))

\* variant: the scan for labels stops at the first accepting member
acceptions_first_only(n, ps) ==
    LET members == SortedInts(ps)
        labelled == SelectSeq(members, LAMBDA i : n.states[i + 1] # None)
    IN IF labelled = <<>> THEN <<>> ELSE <<n.states[labelled[1] + 1]>>

\* acceptions of one subset: the labels of its accepting members, in index order
acceptions(n, ps) ==
    LET members == SortedInts(ps)
        labelled == SelectSeq(members, LAMBDA i : n.states[i + 1] # None)
    IN [k \in 1..Len(labelled) |-> n.states[labelled[k] + 1]]

\* variant: two labels pass
ensure_up_to_two(acc) == Len(acc) < 3

\* ensure!(acceptions.len() < 2, ...)
ensure_one_accept(acc) == Len(acc) < 2

\* variant: the empty subset is treated like any subset without an accept state
dfa_state_plain_empty(n, ps) ==
    IF acceptions(n, ps) = <<>> THEN None ELSE acceptions(n, ps)[1]

\* the state from_rules adds for one subset (that passed the ensure!)
dfa_state(n, ps) ==
    IF ps = {} THEN TRAP
    ELSE IF acceptions(n, ps) = <<>> THEN None
    ELSE acceptions(n, ps)[1]

\* the first loop of from_rules: [err, states]; the loop returns at the first
\* subset whose ensure! fails
build_states(n, pss) ==
    IF \E k \in DOMAIN pss : pss[k] # {} /\ ~ensure_one_accept(acceptions(n, pss[k]))
    THEN [err |-> TRUE, states |-> <<>>]
    ELSE [err |-> FALSE, states |-> [k \in DOMAIN pss |-> dfa_state(n, pss[k])]]

\* Lexer::get_states
get_states(d) == d.states

\* Lexer::get_connections
get_connections(d, start) ==
    LET cs == SelectSeq(d.connections, LAMBDA c : c.start = start)
    IN [k \in DOMAIN cs |-> <<cs[k].range[1], cs[k].range[2], cs[k].end>>]

\* gen_body_lexer / gen_lexer: position of the state labelled _TRAP (-1: None)
trap_position(d) == Position({i \in DOMAIN get_states(d) : get_states(d)[i] = TRAP})

-----------------------------------------------------------------------------
(* Inputs: the rule lists from_rules is run on *)

\* longest literal of the two-rule lists
MaxLit == 2

\* code points used by the generated sets: 0 and char::MAX, the neighbours
\* 0 and 1, and 1 and 3 with the one-point gap 2 between them
SetPoints == {0, 1, 3, MAX_CODEPOINT}

SetElements ==
    LET charseqs == {<<>>} \cup {<<c>> : c \in SetPoints}
        rangeseqs == {<<>>} \cup {<<r>> : r \in SetPoints \X SetPoints}
    IN {SetOf(cs, rs) : cs \in charseqs, rs \in rangeseqs}
          \cup {NegatedSet(cs, rs) : cs \in charseqs, rs \in rangeseqs}

Repetitions(E) ==
    {OneOrMore(e) : e \in E} \cup {ZeroOrMore(e) : e \in E} \cup {Optional(e) : e \in E}

Pairings(E, F) ==
    {Group(<<e, f>>) : e \in E, f \in F} \cup {Alternatives(<<e, f>>) : e \in E, f \in F}

\* "a" and "b", bare or repeated, paired, and the pairs repeated
NestedElements ==
    LET xa == {Literal(<<97>>)} \cup Repetitions({Literal(<<97>>)})
        xb == {Literal(<<98>>)} \cup Repetitions({Literal(<<98>>)})
    IN xa \cup Pairings(xa, xb) \cup Repetitions(Pairings(xa, xb))

Words(chars, n) == UNION {[1..k -> chars] : k \in 0..n}

PairElements ==
    {Literal(w) : w \in Words({97, 98}, MaxLit) \ {<<>>}}
        \cup {OneOrMore(Literal(<<97>>)), SetOf(<<97, 98>>, <<>>)}

\* token IF = "if"; token ID = [A-Za-z][A-Za-z0-9]*;
IfIdRules ==
    <<Token("IF", <<Literal(<<105, 102>>)>>),
      Token("ID", <<SetOf(<<>>, <<<<65, 90>>, <<97, 122>>>>),
                    ZeroOrMore(SetOf(<<>>, <<<<65, 90>>, <<97, 122>>, <<48, 57>>>>))>>)>>

\* any sequence of code points, and a rule after the two-letter range [a-c]
SpecialRules ==
    {IfIdRules,
     <<Token("ANY", <<ZeroOrMore(NegatedSet(<<>>, <<>>))>>)>>,
     <<Token("ANY1", <<OneOrMore(NegatedSet(<<>>, <<>>))>>)>>,
     <<Token("R", <<SetOf(<<>>, <<<<97, 99>>>>), Optional(NegatedSet(<<98>>, <<>>))>>)>>}

\* nonterm N = A B -> Pair(a, b);  and  nonterm M = "a" -> Lit();
NontermRules ==
    {Nonterm("N", <<RuleRef("a", "A"), RuleRef("b", "B")>>),
     Nonterm("M", <<Literal(<<97>>)>>)}

\* the two-rule lists over "a", "ab" and [ab], bare and with non-terminal
\* rules before, between and behind the tokens; and lists without a token
MixedRuleLists ==
    LET elems == {Literal(<<97>>), Literal(<<97, 98>>), SetOf(<<97, 98>>, <<>>)}
        pairs == {<<Token("A", <<e>>), Token("B", <<f>>)>> : e \in elems, f \in elems}
    IN UNION {{<<n>> \o p, <<p[1], n, p[2]>>, p \o <<n>>, <<n, p[1], n, p[2]>>} :
                 p \in pairs, n \in NontermRules}
          \cup {<<n>> : n \in NontermRules}
          \cup {<<n, m>> : n \in NontermRules, m \in NontermRules}

RuleLists ==
    {<<Token("A", <<e>>)>> : e \in SetElements \cup NestedElements}
        \cup {<<Token("A", <<e>>), Token("B", <<f>>)>> : e \in PairElements, f \in PairElements}
        \cup SpecialRules
        \cup MixedRuleLists

-----------------------------------------------------------------------------
(* main: from_rules, then the code generator's search for the trap state *)

NoNfa == [states |-> <<>>, entry |-> 0, connections |-> <<>>, panic |-> FALSE]
NoDfa == [states |-> <<>>, connections |-> <<>>]
NoCall == [at |-> "idle"]

NoBuf == [data |-> <<>>, fail |-> FALSE]

IdleLexer ==
    /\ lang = "none"
    /\ input = <<>>
    /\ contents = <<>>
    /\ buf = NoBuf
    /\ lx = NoCall
    /\ tokens = <<>>

InitWith(lists) ==
    /\ overflow_checks \in BOOLEAN
    /\ hash_order \in {"asc", "desc"}
    /\ rules \in lists
    /\ pc = "start"
    /\ alphabet = <<>>
    /\ nfa = NoNfa
    /\ powersets = <<>>
    /\ connections = <<>>
    /\ stack = <<>>
    /\ dfa = NoDfa
    /\ result = "None"
    /\ trap = -1
    /\ IdleLexer

Init == InitWith(RuleLists)

\* let alphabet = construct_alphabet(...)
ConstructAlphabet ==
    /\ pc = "start"
    /\ LET r == construct_alphabet(Terminals(rules), overflow_checks)
       IN /\ alphabet' = r.alphabet
          /\ pc' = IF r.panic THEN "panic" ELSE "alphabet"
          /\ result' = IF r.panic THEN "Panic" ELSE result
    /\ UNCHANGED <<overflow_checks, hash_order, rules, nfa, powersets, connections,
                   stack, dfa, trap, lang, input, contents, buf, lx, tokens>>

\* let nfa = construct_nfa(...)
ConstructNfa ==
    /\ pc = "alphabet"
    /\ LET n == construct_nfa(Terminals(rules), alphabet, hash_order)
       IN /\ nfa' = n
          /\ pc' = IF n.panic THEN "panic" ELSE "nfa"
          /\ result' = IF n.panic THEN "Panic" ELSE result
    /\ UNCHANGED <<overflow_checks, hash_order, rules, alphabet, powersets, connections,
                   stack, dfa, trap, lang, input, contents, buf, lx, tokens>>

\* closure.insert(nfa.entry); epsilon_closure(&nfa, &mut closure);
\* powersets.push(closure); and the call powerset_construction(&nfa, 0, ...)
StartClosure ==
    /\ pc = "nfa"
    /\ powersets' = <<epsilon_closure(nfa, {nfa.entry})>>
    /\ stack' = <<Frame(0, 1, -1)>>
    /\ pc' = "powerset"
    /\ UNCHANGED <<overflow_checks, hash_order, rules, alphabet, nfa, connections,
                   dfa, result, trap, lang, input, contents, buf, lx, tokens>>

\* powerset_construction, one pass of the for loop up to the push of the
\* connection or to the recursive call
PowersetIterate ==
    /\ pc = "powerset"
    /\ stack # <<>>
    /\ Top(stack).pos = -1
    /\ Top(stack).ai <= Len(alphabet)
    /\ LET f == Top(stack)
           arange == alphabet[f.ai]
           tc == transition_closure(nfa, powersets, f.start_closure, arange)
           found == registered_position(powersets, tc)
       IN IF found # -1
          THEN /\ connections' = Append(connections, DfaConnection(arange, f.start_closure, found))
               /\ stack' = ReplaceTop(stack, Frame(f.start_closure, f.ai + 1, -1))
               /\ powersets' = powersets
          ELSE /\ powersets' = Append(powersets, tc)
               /\ stack' = Append(ReplaceTop(stack, Frame(f.start_closure, f.ai, Len(powersets))),
                                  Frame(Len(powersets), 1, -1))
               /\ connections' = connections
    /\ UNCHANGED <<overflow_checks, hash_order, rules, pc, alphabet, nfa,
                   dfa, result, trap, lang, input, contents, buf, lx, tokens>>

\* powerset_construction, after the recursive call has returned: the push of
\* the connection to the new subset
PowersetResume ==
    /\ pc = "powerset"
    /\ stack # <<>>
    /\ Top(stack).pos # -1
    /\ LET f == Top(stack)
       IN /\ connections' = Append(connections,
                                   DfaConnection(alphabet[f.ai], f.start_closure, f.pos))
          /\ stack' = ReplaceTop(stack, Frame(f.start_closure, f.ai + 1, -1))
    /\ UNCHANGED <<overflow_checks, hash_order, rules, pc, alphabet, nfa, powersets,
                   dfa, result, trap, lang, input, contents, buf, lx, tokens>>

\* powerset_construction, the end of the for loop: the activation returns
PowersetReturn ==
    /\ pc = "powerset"
    /\ stack # <<>>
    /\ Top(stack).pos = -1
    /\ Top(stack).ai > Len(alphabet)
    /\ stack' = Pop(stack)
    /\ UNCHANGED <<overflow_checks, hash_order, rules, pc, alphabet, nfa, powersets,
                   connections, dfa, result, trap, lang, input, contents, buf, lx, tokens>>

\* the two loops that fill the DFA, and the return
BuildDfa ==
    /\ pc = "powerset"
    /\ stack = <<>>
    /\ LET b == build_states(nfa, powersets)
       IN /\ dfa' = IF b.err THEN dfa
                    ELSE [states |-> b.states, connections |-> connections]
          /\ result' = IF b.err THEN "Err" ELSE "Ok"
    /\ pc' = "returned"
    /\ UNCHANGED <<overflow_checks, hash_order, rules, alphabet, nfa, powersets,
                   connections, stack, trap, lang, input, contents, buf, lx, tokens>>

\* the emitter run on the returned Lexer, gen_body_lexer (C++) or gen_lexer (Java):
\* let trap = ....position(...).unwrap()
GenLexer ==
    /\ pc = "returned"
    /\ result = "Ok"
    /\ lang' \in {"cpp", "java"}
    /\ trap' = trap_position(dfa)
    /\ pc' = IF trap_position(dfa) = -1 THEN "panic" ELSE "generated"
    /\ UNCHANGED <<overflow_checks, hash_order, rules, alphabet, nfa, powersets,
                   connections, stack, dfa, result, input, contents, buf, lx, tokens>>

\* powerset_construction as one computation: the activations are kept on an
\* explicit stack, st = [powersets, connections, stack]; one step is one pass
\* of the for loop of the activation on top, the push of the connection after
\* a recursive call has returned, or the return at the end of the loop
powerset_step(n, alpha, st) ==
    LET f == Top(st.stack)
        tc == transition_closure(n, st.powersets, f.start_closure, alpha[f.ai])
        found == registered_position(st.powersets, tc)
    IN IF f.pos # -1
       THEN [st EXCEPT !.connections =
                           Append(@, DfaConnection(alpha[f.ai], f.start_closure, f.pos)),
                       !.stack = ReplaceTop(@, Frame(f.start_closure, f.ai + 1, -1))]
       ELSE IF f.ai > Len(alpha)
       THEN [st EXCEPT !.stack = Pop(@)]
       ELSE IF found # -1
       THEN [st EXCEPT !.connections =
                           Append(@, DfaConnection(alpha[f.ai], f.start_closure, found)),
                       !.stack = ReplaceTop(@, Frame(f.start_closure, f.ai + 1, -1))]
       ELSE [st EXCEPT !.powersets = Append(@, tc),
                       !.stack = Append(ReplaceTop(@, Frame(f.start_closure, f.ai,
                                                            Len(st.powersets))),
                                        Frame(Len(st.powersets), 1, -1))]

RECURSIVE powerset_construction(_, _, _)
powerset_construction(n, alpha, st) ==
    IF st.stack = <<>> THEN st
    ELSE powerset_construction(n, alpha, powerset_step(n, alpha, st))

\* Lexer::from_rules as one computation: [result, dfa]
from_rules(rs, checks, order) ==
    LET a == construct_alphabet(Terminals(rs), checks)
        n == construct_nfa(Terminals(rs), a.alphabet, order)
        st == powerset_construction(n, a.alphabet,
                  [powersets |-> <<epsilon_closure(n, {n.entry})>>,
                   connections |-> <<>>,
                   stack |-> <<Frame(0, 1, -1)>>])
        b == build_states(n, st.powersets)
    IN IF a.panic THEN [result |-> "Panic", dfa |-> NoDfa]
       ELSE IF n.panic THEN [result |-> "Panic", dfa |-> NoDfa]
       ELSE IF b.err THEN [result |-> "Err", dfa |-> NoDfa]
       ELSE [result |-> "Ok", dfa |-> [states |-> b.states, connections |-> st.connections]]

Next ==
    \/ ConstructAlphabet
    \/ ConstructNfa
    \/ StartClosure
    \/ PowersetIterate
    \/ PowersetResume
    \/ PowersetReturn
    \/ BuildDfa
    \/ GenLexer

Spec == Init /\ [][Next]_vars

\* the steps of from_rules: a sequential function that, once called, runs
\* each of its steps as soon as the step before has finished
FromRulesStep ==
    \/ ConstructAlphabet
    \/ ConstructNfa
    \/ StartClosure
    \/ PowersetIterate
    \/ PowersetResume
    \/ PowersetReturn
    \/ BuildDfa

\* the states in which from_rules has a step to take: by the guards of its
\* steps, the states where <<FromRulesStep>>_vars is enabled
FromRulesRunning == pc \in {"start", "alphabet", "nfa", "powerset"}

\* weak fairness of FromRulesStep, that is WF_vars(FromRulesStep) with its
\* enabling condition written as the guard: a call of from_rules does not
\* stop between two of its steps
FairSpec ==
    Init /\ [][Next]_vars /\ ([]<>(~FromRulesRunning) \/ []<><<FromRulesStep>>_vars)

-----------------------------------------------------------------------------
(* Reference semantics the claims are stated against: regular languages    *)
(* over code points, and NFA runs as least fixpoints.                      *)

\* longest word of code points the language claims are checked on
MaxWord == 3

\* one code point of every alphabet interval the rule lists give rise to
SampleCodePoints == {0, 1, 2, 3, 4, 97, 98, 99, MAX_CODEPOINT}

InRange(c, r) == r[1] <= c /\ c <= r[2]

\* code points a Set denotes
SetDenotes(c, element) ==
    \/ c \in Range(element.chars)
    \/ \E i \in DOMAIN element.ranges : InRange(c, element.ranges[i])

\* w is in the regular language of element
RECURSIVE Matches(_, _)
RECURSIVE MatchesSeq(_, _, _)
RECURSIVE MatchesStar(_, _)
MatchesSeq(subelems, k, w) ==
    IF k > Len(subelems) THEN w = <<>>
    ELSE \E n \in 0..Len(w) :
            /\ Matches(subelems[k], SubSeq(w, 1, n))
            /\ MatchesSeq(subelems, k + 1, SubSeq(w, n + 1, Len(w)))

MatchesStar(e, w) ==
    \/ w = <<>>
    \/ \E n \in 1..Len(w) :
            /\ Matches(e, SubSeq(w, 1, n))
            /\ MatchesStar(e, SubSeq(w, n + 1, Len(w)))

Matches(element, w) ==
    CASE element.kind = "Literal" -> w = element.lit
      [] element.kind = "Set" -> Len(w) = 1 /\ SetDenotes(w[1], element)
      [] element.kind = "NegatedSet" ->
            Len(w) = 1 /\ InRange(w[1], <<0, MAX_CODEPOINT>>) /\ ~SetDenotes(w[1], element)
      [] element.kind = "Group" -> MatchesSeq(element.subelems, 1, w)
      [] element.kind = "Alternatives" ->
            \E i \in DOMAIN element.subelems : Matches(element.subelems[i], w)
      [] element.kind = "Optional" -> w = <<>> \/ Matches(element.inner, w)
      [] element.kind = "ZeroOrMore" -> MatchesStar(element.inner, w)
      [] element.kind = "OneOrMore" ->
            \E n \in 0..Len(w) :
                /\ Matches(element.inner, SubSeq(w, 1, n))
                /\ MatchesStar(element.inner, SubSeq(w, n + 1, Len(w)))

\* states reachable from S over epsilon edges
RECURSIVE RefClosure(_, _)
RefClosure(n, S) ==
    LET more == S \cup {n.connections[i].b : i \in
                    {j \in DOMAIN n.connections :
                        n.connections[j].kind = "Epsilon" /\ n.connections[j].a \in S}}
    IN IF more = S THEN S ELSE RefClosure(n, more)

RangedEdges(n) == {i \in DOMAIN n.connections : n.connections[i].kind = "Connection"}

\* one step of the NFA on the alphabet interval r
RefStep(n, S, r) ==
    RefClosure(n, {n.connections[i].b : i \in
        {j \in RangedEdges(n) : n.connections[j].a \in S /\ n.connections[j].range = r}})

\* one step of the NFA on the code point c
RefStepCp(n, S, c) ==
    RefClosure(n, {n.connections[i].b : i \in
        {j \in RangedEdges(n) : n.connections[j].a \in S /\ InRange(c, n.connections[j].range)}})

RECURSIVE RefRunCp(_, _, _)
RefRunCp(n, S, w) ==
    IF w = <<>> THEN S ELSE RefRunCp(n, RefStepCp(n, S, Head(w)), Tail(w))

\* the NFA states labelled with the rule name
AcceptStatesOf(n, name) == {i \in 0..(Len(n.states) - 1) : n.states[i + 1] = name}

\* the NFA has a path from its entry to the accept state of the rule reading w
NfaAccepts(n, name, w) ==
    RefRunCp(n, RefClosure(n, {n.entry}), w) \cap AcceptStatesOf(n, name) # {}

\* accepting NFA states of a subset
Accepting(n, S) == {i \in S : n.states[i + 1] # None}

DfaLabel(d, s) == IF s \in 0..(Len(d.states) - 1) THEN d.states[s + 1] ELSE None

\* the state the DFA moves to from s on the alphabet interval r (-1: none)
DfaStep(d, s, r) ==
    LET gc == get_connections(d, s)
        hits == {k \in DOMAIN gc : <<gc[k][1], gc[k][2]>> = r}
    IN IF s = -1 \/ hits = {} THEN -1 ELSE gc[CHOOSE k \in hits : TRUE][3]

\* the state the DFA moves to from s on the code point c (-1: none)
DfaStepCp(d, s, c) ==
    LET gc == get_connections(d, s)
        hits == {k \in DOMAIN gc : InRange(c, <<gc[k][1], gc[k][2]>>)}
    IN IF s = -1 \/ hits = {} THEN -1 ELSE gc[CHOOSE k \in hits : TRUE][3]

\* {<<DFA state after w, NFA states after w>> : w a string of alphabet intervals}
RECURSIVE JointClose(_, _, _, _)
JointClose(d, n, alpha, P) ==
    LET more == P \cup {<<DfaStep(d, p[1], r), RefStep(n, p[2], r)>> :
                            p \in P, r \in Range(alpha)}
    IN IF more = P THEN P ELSE JointClose(d, n, alpha, more)

JointReach(d, n, alpha) == JointClose(d, n, alpha, {<<0, RefClosure(n, {n.entry})>>})

\* the subsets of NFA states some string of alphabet intervals leads to
RECURSIVE SubsetClose(_, _, _)
SubsetClose(n, alpha, P) ==
    LET more == P \cup {RefStep(n, S, r) : S \in P, r \in Range(alpha)}
    IN IF more = P THEN P ELSE SubsetClose(n, alpha, more)

ReachableSubsets(n, alpha) == SubsetClose(n, alpha, {RefClosure(n, {n.entry})})

UserLabel(l) == l # None /\ l # TRAP

RECURSIVE DfaRunCp(_, _, _)
DfaRunCp(d, s, w) == IF w = <<>> THEN s ELSE DfaRunCp(d, DfaStepCp(d, s, Head(w)), Tail(w))

\* length of the longest non-empty prefix of w the DFA accepts (0: none)
LongestAccepted(d, w) ==
    LET ks == {k \in 1..Len(w) : UserLabel(DfaLabel(d, DfaRunCp(d, 0, SubSeq(w, 1, k))))}
    IN IF ks = {} THEN 0 ELSE CHOOSE k \in ks : \A j \in ks : j <= k

\* the token sequence maximal munch over the DFA yields on w
RECURSIVE DfaMunch(_, _)
DfaMunch(d, w) ==
    IF w = <<>> THEN <<>>
    ELSE LET k == LongestAccepted(d, w)
         IN IF k = 0 THEN <<<<"_ERR", w>>>>
            ELSE <<<<DfaLabel(d, DfaRunCp(d, 0, SubSeq(w, 1, k))), SubSeq(w, 1, k)>>>>
                    \o DfaMunch(d, SubSeq(w, k + 1, Len(w)))

\* the code points an element names: literal characters, set characters and
\* the endpoints of set ranges
RECURSIVE CodePointsOf(_)
CodePointsOf(element) ==
    CASE element.kind = "Literal" -> Range(element.lit)
      [] element.kind \in {"Set", "NegatedSet"} ->
            Range(element.chars)
                \cup {element.ranges[i][1] : i \in DOMAIN element.ranges}
                \cup {element.ranges[i][2] : i \in DOMAIN element.ranges}
      [] element.kind \in {"OneOrMore", "ZeroOrMore", "Optional"} ->
            CodePointsOf(element.inner)
      [] element.kind \in {"Group", "Alternatives"} ->
            UNION {CodePointsOf(element.subelems[i]) : i \in DOMAIN element.subelems}

ReferencedCodePoints(rs) == UNION {CodePointsOf(rs[k].element) : k \in DOMAIN rs}

-----------------------------------------------------------------------------
(* The generated lexers.  The emitted next() is modelled for streams of     *)
(* ASCII code points other than NUL: one byte per code point in C++        *)
(* (chlen = 1), one char per code point in Java.                            *)

\* most code points of a stream
MaxInput == 3

\* most calls of next() on one Lexer
MaxCalls == 4

\* most passes of the while loop of one call of next()
MaxPos == 5

\* token LT = "<"; token LE = "<=";
LtLeRules == <<Token("LT", <<Literal(<<60>>)>>), Token("LE", <<Literal(<<60, 61>>)>>)>>

\* token A = "a"; token ABA = "aba"; token B = "b"; token BC = "bc";
AbaRules ==
    <<Token("A", <<Literal(<<97>>)>>), Token("ABA", <<Literal(<<97, 98, 97>>)>>),
      Token("B", <<Literal(<<98>>)>>), Token("BC", <<Literal(<<98, 99>>)>>)>>

\* token NUM = [0-9]+;
NumRules == <<Token("NUM", <<OneOrMore(SetOf(<<>>, <<<<48, 57>>>>))>>)>>

\* token STR = "\"" [^"]* "\"";
StrRules ==
    <<Token("STR", <<Literal(<<34>>), ZeroOrMore(NegatedSet(<<34>>, <<>>)), Literal(<<34>>)>>)>>

\* token REST = "a" [^]*;
RestRules == <<Token("REST", <<Literal(<<97>>), ZeroOrMore(NegatedSet(<<>>, <<>>))>>)>>

\* token AS = "a"*;
StarRules == <<Token("AS", <<ZeroOrMore(Literal(<<97>>))>>)>>

LexRuleLists == {LtLeRules, AbaRules, NumRules, StrRules, RestRules, StarRules}

\* the code points streams are made of: the ones the rules name, and x
InputChars(rs) == ReferencedCodePoints(rs) \cup {120}

NoBufAfter(b, n) == [b EXCEPT !.data = SubSeq(@, n + 1, Len(@))]

Zeros(n) == [i \in 1..n |-> 0]

\* Lexer::read(use_buf, dst, 1): [ch, buf, contents, use_buf]; dst keeps its
\* initial 0 when neither stream has a byte
Lexer_read(b, cont, use_buf) ==
    LET got == use_buf /\ ~b.fail /\ b.data # <<>>
    IN [ch |-> IF got THEN Head(b.data) ELSE IF cont # <<>> THEN Head(cont) ELSE 0,
        buf |-> IF got THEN [b EXCEPT !.data = Tail(@)] ELSE b,
        contents |-> IF got \/ cont = <<>> THEN cont ELSE Tail(cont),
        use_buf |-> got /\ Tail(b.data) # <<>>]

\* Lexer::next_chr on one byte below 128: lengths[byte >> 3] is 1, the code
\* point is the low seven bits, and the error word is 0x2a >> shifte[1]
next_chr(byte) == [ch |-> byte % 128, error |-> 42 \div 64]

\* push_utf8 on a code point below 128, the writes outside chs aside:
\* s.write(chs, 1), which a stream in the fail state ignores
push_utf8(b, cp) == IF b.fail THEN b ELSE [b EXCEPT !.data = Append(@, cp)]

\* std::string s(n, '\0'); this->buf.read(&s[0], n): [s, buf]
buf_read(b, n) ==
    IF b.fail THEN [s |-> Zeros(n), buf |-> b]
    ELSE IF n <= Len(b.data) THEN [s |-> SubSeq(b.data, 1, n), buf |-> NoBufAfter(b, n)]
    ELSE [s |-> b.data \o Zeros(n - Len(b.data)), buf |-> [data |-> <<>>, fail |-> TRUE]]

\* C++: the case of switch (ch) inside case state that ch selects: the target
\* state, -1 when no case label holds ch
cpp_case(d, state, ch) ==
    LET gc == get_connections(d, state)
        k == Position({i \in DOMAIN gc : gc[i][1] <= ch /\ ch <= gc[i][2]})
    IN IF k = -1 THEN -1 ELSE gc[k + 1][3]

\* Lexer::get_alphabet, which java.rs calls
get_alphabet(alpha) == alpha

\* Java: toAlphabet
toAlphabet(alpha, ch) ==
    LET single == Position({i \in DOMAIN alpha : alpha[i][1] = alpha[i][2] /\ alpha[i][1] = ch})
        ranged == Position({i \in DOMAIN alpha : alpha[i][1] # alpha[i][2] /\ ch >= alpha[i][1] /\ ch <= alpha[i][2]})
    IN IF single # -1 THEN single ELSE ranged

\* Java: the case of switch (ach) inside case state that ach selects: a case
\* label of a transition that does not lead to the trap, else default: when
\* the state has a transition to the trap, else none (-1)
java_case(d, alpha, tr, state, ach) ==
    LET gc == get_connections(d, state)
        k == Position({i \in DOMAIN gc :
                        /\ gc[i][3] # tr
                        /\ Position({j \in DOMAIN alpha : alpha[j] = <<gc[i][1], gc[i][2]>>}) = ach})
    IN IF k # -1 THEN gc[k + 1][3]
       ELSE IF \E j \in DOMAIN gc : gc[j][3] = tr THEN tr
       ELSE -1

\* the body of one case: found_pos = pos; found = acc; (when the state is
\* accepting) state = target;
case_body(d, l, target) ==
    IF target = -1 THEN l
    ELSE IF get_states(d)[l.state + 1] # None
    THEN [l EXCEPT !.found_pos = l.pos, !.found = get_states(d)[l.state + 1], !.state = target]
    ELSE [l EXCEPT !.state = target]

LexInit == InitWith(LexRuleLists)

\* Lexer::Lexer(contents) / new Lexer(is)
Lexer_new ==
    /\ pc = "generated"
    /\ input' \in Words(InputChars(Terminals(rules)), MaxInput)
    /\ contents' = input'
    /\ buf' = NoBuf
    /\ pc' = "lexing"
    /\ UNCHANGED <<overflow_checks, hash_order, rules, alphabet, nfa, powersets,
                   connections, stack, dfa, result, trap, lang, lx, tokens>>

\* next(), up to the while loop
Lexer_next ==
    /\ pc = "lexing"
    /\ lx.at \in {"idle", "returned"}
    /\ Len(tokens) < MaxCalls
    /\ lx' = [at |-> "loop", exit |-> "", found |-> TRAP, found_pos |-> 0, pos |-> 0,
              state |-> 0, use_buf |-> lang = "cpp" /\ buf.data # <<>>]
    /\ UNCHANGED <<overflow_checks, hash_order, rules, pc, alphabet, nfa, powersets,
                   connections, stack, dfa, result, trap, lang, input, contents, buf, tokens>>

\* C++ next(), one pass of the while loop.  push_utf8 writes chs[-3] and
\* chs[-2] for a one-byte code point: the pass either goes on as written or
\* leaves the call in an undefined state.
CppLoop ==
    /\ pc = "lexing"
    /\ lang = "cpp"
    /\ lx.at = "loop"
    /\ lx.pos <= MaxPos
    /\ IF lx.state = trap
       THEN LET r == buf_read(buf, lx.found_pos)
            IN /\ buf' = r.buf
               /\ contents' = contents
               /\ tokens' = Append(tokens, <<lx.found, r.s>>)
               /\ lx' = [lx EXCEPT !.at = "returned", !.exit = "trap"]
       ELSE \E clobbered \in BOOLEAN :
            LET rd == Lexer_read(buf, contents, lx.use_buf)
                dec == next_chr(rd.ch)
                pushed == push_utf8(rd.buf, dec.ch)
                l1 == [lx EXCEPT !.use_buf = rd.use_buf]
                l2 == case_body(dfa, l1, cpp_case(dfa, lx.state, dec.ch))
                r == buf_read(pushed, l2.found_pos)
            IN /\ contents' = rd.contents
               /\ IF dec.error # 0
                  THEN /\ buf' = rd.buf
                       /\ tokens' = Append(tokens, <<"_ERR", <<>>>>)
                       /\ lx' = [l1 EXCEPT !.at = "returned", !.exit = "error"]
                  ELSE IF clobbered
                  THEN /\ buf' = rd.buf
                       /\ tokens' = tokens
                       /\ lx' = [l1 EXCEPT !.at = "undefined"]
                  ELSE IF dec.ch = 0 /\ l2.found = TRAP
                  THEN /\ buf' = pushed
                       /\ tokens' = Append(tokens, <<"_EOF", <<>>>>)
                       /\ lx' = [l2 EXCEPT !.at = "returned", !.exit = "end"]
                  ELSE IF dec.ch = 0
                  THEN /\ buf' = r.buf
                       /\ tokens' = Append(tokens, <<l2.found, r.s>>)
                       /\ lx' = [l2 EXCEPT !.at = "returned", !.exit = "end"]
                  ELSE /\ buf' = pushed
                       /\ tokens' = tokens
                       /\ lx' = [l2 EXCEPT !.pos = @ + 1]
    /\ UNCHANGED <<overflow_checks, hash_order, rules, pc, alphabet, nfa, powersets,
                   connections, stack, dfa, result, trap, lang, input>>

\* Java next(), one pass of the while loop
JavaLoop ==
    /\ pc = "lexing"
    /\ lang = "java"
    /\ lx.at = "loop"
    /\ lx.pos <= MaxPos
    /\ IF lx.state = trap
       THEN /\ buf' = NoBufAfter(buf, lx.found_pos)
            /\ contents' = contents
            /\ tokens' = Append(tokens, <<lx.found, SubSeq(buf.data, 1, lx.found_pos)>>)
            /\ lx' = [lx EXCEPT !.at = "returned", !.exit = "trap"]
       ELSE LET buffered == lx.pos < Len(buf.data)
                ch == IF buffered THEN buf.data[lx.pos + 1]
                      ELSE IF contents # <<>> THEN Head(contents) ELSE -1
                b1 == IF ~buffered /\ ch # -1 THEN [buf EXCEPT !.data = Append(@, ch)] ELSE buf
                ach == toAlphabet(get_alphabet(alphabet), ch)
                l2 == case_body(dfa, lx, java_case(dfa, get_alphabet(alphabet), trap, lx.state, ach))
            IN /\ contents' = IF buffered \/ contents = <<>> THEN contents ELSE Tail(contents)
               /\ IF ch = -1 /\ l2.found = TRAP
                  THEN /\ buf' = b1
                       /\ tokens' = Append(tokens, <<"_EOF", <<>>>>)
                       /\ lx' = [l2 EXCEPT !.at = "returned", !.exit = "end"]
                  ELSE IF ch = -1
                  THEN /\ buf' = NoBufAfter(b1, l2.found_pos)
                       /\ tokens' = Append(tokens, <<l2.found, SubSeq(b1.data, 1, l2.found_pos)>>)
                       /\ lx' = [l2 EXCEPT !.at = "returned", !.exit = "end"]
                  ELSE /\ buf' = b1
                       /\ tokens' = tokens
                       /\ lx' = [l2 EXCEPT !.pos = @ + 1]
    /\ UNCHANGED <<overflow_checks, hash_order, rules, pc, alphabet, nfa, powersets,
                   connections, stack, dfa, result, trap, lang, input>>

LexNext ==
    \/ ConstructAlphabet
    \/ ConstructNfa
    \/ StartClosure
    \/ PowersetIterate
    \/ PowersetResume
    \/ PowersetReturn
    \/ BuildDfa
    \/ GenLexer
    \/ Lexer_new
    \/ Lexer_next
    \/ CppLoop
    \/ JavaLoop

LexSpec == LexInit /\ [][LexNext]_vars

-----------------------------------------------------------------------------
(* Predicates on the alphabet and on the position of the run *)

\* alpha is sorted, and its intervals are disjoint and cover [0, MAX_CODEPOINT]
IsPartition(alpha) ==
    /\ alpha # <<>>
    /\ alpha[1][1] = 0
    /\ alpha[Len(alpha)][2] = MAX_CODEPOINT
    /\ \A i \in DOMAIN alpha : alpha[i][1] <= alpha[i][2]
    /\ \A i \in 1..(Len(alpha) - 1) : alpha[i + 1][1] = alpha[i][2] + 1

Returned == pc \in {"returned", "generated"} \/ (pc = "panic" /\ result = "Ok")
AlphabetReturned == alphabet # <<>>
NfaBuilt == pc \in {"nfa", "closure", "powerset", "returned", "generated"}
               \/ (pc = "panic" /\ result = "Ok")

-----------------------------------------------------------------------------
(* Claims *)

\* C1: in every DFA from_rules returns Ok, each non-trap state has, for every
\* alphabet interval, exactly one transition with that interval, no
\* transition with any other interval, and no two of its transitions overlap.
C1_TotalAndDisjoint ==
    result = "Ok" =>
        \A s \in 0..(Len(get_states(dfa)) - 1) :
            get_states(dfa)[s + 1] # TRAP =>
                LET gc == get_connections(dfa, s)
                IN /\ \A r \in Range(alphabet) :
                        Cardinality({k \in DOMAIN gc : <<gc[k][1], gc[k][2]>> = r}) = 1
                   /\ \A k \in DOMAIN gc : <<gc[k][1], gc[k][2]>> \in Range(alphabet)
                   /\ \A j, k \in DOMAIN gc :
                        j # k => (gc[j][2] < gc[k][1] \/ gc[k][2] < gc[j][1])

\* C2: for every string w of alphabet intervals, the DFA run on w from state
\* 0 ends in a state labelled R iff the NFA has a path reading w from its
\* entry to the accept state of R, and ends in an unlabelled or trap state
\* iff no NFA path reading w ends in an accept state.
C2_DfaEquivalentToNfa ==
    result = "Ok" =>
        \A p \in JointReach(dfa, nfa, alphabet) :
            /\ p[1] # -1
            /\ \A k \in DOMAIN Terminals(rules) :
                  DfaLabel(dfa, p[1]) = Terminals(rules)[k].name
                      <=> p[2] \cap AcceptStatesOf(nfa, Terminals(rules)[k].name) # {}
            /\ ~UserLabel(DfaLabel(dfa, p[1])) <=> Accepting(nfa, p[2]) = {}

W_C2 ==
    /\ result = "Ok"
    /\ Len(rules) = 2
    /\ \E p \in JointReach(dfa, nfa, alphabet) : DfaLabel(dfa, p[1]) = "B"
    /\ \E p \in JointReach(dfa, nfa, alphabet) : DfaLabel(dfa, p[1]) = TRAP
    /\ \E p \in JointReach(dfa, nfa, alphabet) : DfaLabel(dfa, p[1]) = None

\* some subset the subset construction can reach holds the accept states of
\* two or more rules
Ambiguous(n, alpha) ==
    \E S \in ReachableSubsets(n, alpha) : Cardinality(Accepting(n, S)) >= 2

AbAbRules == <<Token("A", <<Literal(<<97, 98>>)>>), Token("B", <<Literal(<<97, 98>>)>>)>>

\* C3: when from_rules returns, it returns the error "Accepting state must
\* accept exactly one rule" iff some reachable subset holds the accept states
\* of two or more rules, and Ok otherwise; a state of a returned DFA carries
\* the label of at most one rule, the one whose accept state its subset holds.
C3_ErrorIffAmbiguous ==
    Returned =>
        /\ result \in {"Ok", "Err"}
        /\ result = "Err" <=> Ambiguous(nfa, alphabet)
        /\ result = "Ok" =>
              /\ Len(get_states(dfa)) = Len(powersets)
              /\ \A i \in DOMAIN powersets :
                    /\ Cardinality(Accepting(nfa, powersets[i])) <= 1
                    /\ UserLabel(get_states(dfa)[i]) =>
                          Accepting(nfa, powersets[i])
                              = AcceptStatesOf(nfa, get_states(dfa)[i])

W_C3 == Returned /\ rules = AbAbRules /\ result = "Err"

\* C4: for every terminal rule R, the words of code points that drive the NFA
\* from its entry to the accept state of R are exactly the words of the
\* regular language of R's element.  Stated for the NFAs built over an
\* alphabet that partitions [0, MAX_CODEPOINT], so that what it tests is the
\* wiring of the fragments and not the alphabet.
C4_NfaLanguageIsRegexLanguage ==
    (NfaBuilt /\ IsPartition(alphabet)) =>
        \A k \in DOMAIN Terminals(rules) :
            \A w \in Words(SampleCodePoints, MaxWord) :
                NfaAccepts(nfa, Terminals(rules)[k].name, w)
                    <=> Matches(Terminals(rules)[k].element, w)

\* C5: the alphabet construct_alphabet returns is sorted by lo, its intervals
\* are pairwise disjoint, and their union is [0, MAX_CODEPOINT].
C5_AlphabetPartition == AlphabetReturned => IsPartition(alphabet)

\* C6: every code point a terminal rule names as a literal character, a set
\* character or an endpoint of a set range is a singleton interval [c, c] of
\* the alphabet construct_alphabet returns.
C6_ReferencedSingletons ==
    AlphabetReturned =>
        \A c \in ReferencedCodePoints(Terminals(rules)) : <<c, c>> \in Range(alphabet)

W_C6 ==
    /\ AlphabetReturned
    /\ Cardinality(ReferencedCodePoints(Terminals(rules))) >= 3
    /\ \E k \in DOMAIN rules : rules[k].element.subelems[1].kind = "NegatedSet"

\* the rules whose regular language holds w
RulesMatching(rs, w) == {k \in DOMAIN rs : Matches(rs[k].element, w)}

\* length of the longest non-empty prefix of w some rule matches (0: none)
LongestMatch(rs, w) ==
    LET ns == {n \in 1..Len(w) : RulesMatching(rs, SubSeq(w, 1, n)) # {}}
    IN IF ns = {} THEN 0 ELSE CHOOSE n \in ns : \A m \in ns : m <= n

\* code points the calls before call k have taken off the stream: the
\* lengths of the lexemes they returned
RECURSIVE Consumed(_, _)
Consumed(toks, k) == IF k <= 1 THEN 0 ELSE Consumed(toks, k - 1) + Len(toks[k - 1][2])

\* C7: every call of next() that finds a rule matching a non-empty prefix of
\* the remaining input returns the rule that matches the longest such prefix,
\* with that prefix as lexeme, the remaining input being the stream less the
\* lexemes of the calls before.
C7_MaximalMunch ==
    \A k \in DOMAIN tokens :
        LET rem == SubSeq(input, Consumed(tokens, k) + 1, Len(input))
            n == LongestMatch(Terminals(rules), rem)
        IN n > 0 =>
              \E r \in RulesMatching(Terminals(rules), SubSeq(rem, 1, n)) :
                  tokens[k] = <<Terminals(rules)[r].name, SubSeq(rem, 1, n)>>

\* C8 as claimed: for token IF = "if" and token ID = [A-Za-z][A-Za-z0-9]*,
\* from_rules returns a DFA, and maximal munch over it yields [(ID, "iffy")]
\* on the input iffy.
C8_IfIdLexesIffy ==
    (rules = IfIdRules /\ pc \in {"returned", "generated"}) =>
        /\ result = "Ok"
        /\ DfaMunch(dfa, <<105, 102, 102, 121>>) = <<<<"ID", <<105, 102, 102, 121>>>>>>

\* C8 as amended: for token IF = "if" and token ID = [A-Za-z][A-Za-z0-9]*,
\* from_rules never returns Ok: it builds the NFA and the subsets and returns
\* the error, the subset reached on "if" holding the accept states of both
\* IF and ID.
C8_IfIdRejected ==
    rules = IfIdRules =>
        /\ result \in {"None", "Err"}
        /\ pc \notin {"panic", "generated"}
        /\ pc = "returned" =>
              /\ result = "Err"
              /\ AcceptStatesOf(nfa, "IF") \cup AcceptStatesOf(nfa, "ID")
                    \subseteq RefRunCp(nfa, RefClosure(nfa, {nfa.entry}), <<105, 102>>)
              /\ RefRunCp(nfa, RefClosure(nfa, {nfa.entry}), <<105, 102>>) \in Range(powersets)

W_C8 == rules = IfIdRules /\ pc = "returned" /\ result = "Err"

\* C9: in every DFA from_rules returns Ok, state 0 is the start state and
\* exactly one state carries the label _TRAP.
C9_StartAndOneTrap ==
    result = "Ok" =>
        /\ powersets[1] = RefClosure(nfa, {nfa.entry})
        /\ Cardinality({s \in DOMAIN get_states(dfa) : get_states(dfa)[s] = TRAP}) = 1

\* C10: a call of next() that returns because the trap state was entered,
\* with no accepting state remembered, returns the error token _ERR.
C10_TrapWithoutAcceptIsError ==
    (lx.at = "returned" /\ lx.exit = "trap" /\ lx.found = TRAP) =>
        tokens[Len(tokens)][1] = "_ERR"

\* the code points the terminal rules name: the break points
BreakPoints == ReferencedCodePoints(SelectSeq(rules, LAMBDA r : r.is_terminal))

\* C11: when no rule is terminal, so that the set of break points is empty,
\* construct_alphabet raises no error and returns the one interval
\* [0, MAX_CODEPOINT].
C11_NoBreakPointOneInterval ==
    ((\A k \in DOMAIN rules : ~rules[k].is_terminal) /\ pc # "start") =>
        /\ result # "Panic"
        /\ alphabet = <<<<0, MAX_CODEPOINT>>>>

\* one singleton per break point, and one interval per maximal run of code
\* points that are not break points
ExpectedAlphabet(B) ==
    LET starts == {g \in {0} \cup {p + 1 : p \in B} : g \notin B /\ g <= MAX_CODEPOINT}
        EndOf(g) == IF \E q \in B : q > g
                    THEN (CHOOSE q \in B : q > g /\ \A q2 \in B : q2 > g => q <= q2) - 1
                    ELSE MAX_CODEPOINT
    IN {<<p, p>> : p \in B} \cup {<<g, EndOf(g)>> : g \in starts}

\* C12: for a non-empty set of break points the alphabet holds exactly one
\* singleton per break point and one interval per maximal run of code points
\* between them (the first being [0, p-1] when the smallest break point p is
\* above 0), in ascending order.
C12_SingletonsAndMaximalGaps ==
    (BreakPoints # {} /\ AlphabetReturned) =>
        alphabet = SortedPairs(ExpectedAlphabet(BreakPoints))

\* C13: the trap state is absorbing: in a returned DFA that has a state
\* labelled _TRAP, every transition get_connections lists for that state
\* targets that state.
C13_TrapAbsorbing ==
    (Returned /\ result = "Ok" /\ trap_position(dfa) # -1) =>
        LET t == trap_position(dfa)
            cs == get_connections(dfa, t)
        IN \A k \in DOMAIN cs : cs[k][3] = t

\* a returned DFA whose trap is not the only state lists transitions for it
W_C13 ==
    /\ Returned /\ result = "Ok" /\ trap_position(dfa) # -1
    /\ Len(get_states(dfa)) > 2
    /\ Len(get_connections(dfa, trap_position(dfa))) > 1

\* from_rules has returned or panicked, or the emitter has run on its result
Finished == pc \in {"returned", "generated", "panic"}

\* the subsequence of terminal rules of a rule list
TerminalSubsequence(rs) == SelectSeq(rs, LAMBDA r : r.is_terminal)

\* C14: non-terminal rules do not influence the result: every rule list with
\* the same subsequence of terminal rules as the list that was run gives the
\* same outcome of from_rules, the same error or a DFA with the same states
\* and the same connections of every state.
C14_NonTerminalsIgnored ==
    Finished =>
        \A other \in RuleLists :
            TerminalSubsequence(other) = TerminalSubsequence(rules) =>
                LET r == from_rules(other, overflow_checks, hash_order)
                IN /\ r.result = result
                   /\ get_states(r.dfa) = get_states(dfa)
                   /\ \A s \in 0..Len(get_states(dfa)) :
                          get_connections(r.dfa, s) = get_connections(dfa, s)

\* a DFA returned for two tokens with non-terminal rules between them, while
\* the list of the two tokens alone is among the lists compared
W_C14 ==
    /\ Finished /\ result = "Ok"
    /\ Len(rules) = 4 /\ ~rules[1].is_terminal /\ ~rules[3].is_terminal
    /\ TerminalSubsequence(rules) \in RuleLists

\* the names of the rules whose accept state is a member of the subset
AcceptedRules(n, S) == {n.states[i + 1] : i \in Accepting(n, S)}

\* C15: in a returned DFA the state at index i is built from the i-th
\* registered subset: it is labelled _TRAP iff the subset is empty, labelled
\* with the rule name R iff the subset holds the accept state of R and of no
\* other rule, and unlabelled iff the subset is non-empty and holds no accept
\* state; the state indices of the transitions are indices of this numbering:
\* a transition leads from subset S on an alphabet interval to the subset the
\* NFA reaches from S on that interval.
C15_StateBuiltFromSubset ==
    (Returned /\ result = "Ok") =>
        /\ Len(get_states(dfa)) = Len(powersets)
        /\ \A i \in DOMAIN powersets :
              LET label == get_states(dfa)[i]
                  S == powersets[i]
              IN /\ (label = TRAP) <=> (S = {})
                 /\ \A k \in DOMAIN rules :
                       rules[k].is_terminal =>
                           ((label = rules[k].name) <=> (AcceptedRules(nfa, S) = {rules[k].name}))
                 /\ (label = None) <=> (S # {} /\ AcceptedRules(nfa, S) = {})
        /\ \A s \in 0..(Len(powersets) - 1) :
              LET gc == get_connections(dfa, s)
              IN \A k \in DOMAIN gc :
                    /\ gc[k][3] \in 0..(Len(powersets) - 1)
                    /\ powersets[gc[k][3] + 1] =
                           RefStep(nfa, powersets[s + 1], <<gc[k][1], gc[k][2]>>)

\* a returned DFA with a labelled, an unlabelled and a trap state
W_C15 ==
    /\ Returned /\ result = "Ok"
    /\ \E i, j, k \in DOMAIN powersets :
          /\ get_states(dfa)[i] = TRAP
          /\ get_states(dfa)[j] = None
          /\ UserLabel(get_states(dfa)[k])
    /\ dfa.connections # <<>>

\* the first element of the first rule, when that rule is a token: its
\* fragment is built first, on the NFA states 2 (entry) and 3 (exit)
FirstElement == rules[1].element.subelems[1]
FirstFragmentRanges ==
    LET cs == SelectSeq(nfa.connections,
                        LAMBDA c : c.kind = "Connection" /\ c.a = 2 /\ c.b = 3)
    IN [k \in DOMAIN cs |-> cs[k].range]

WellOrdered(element) ==
    \A i \in DOMAIN element.ranges : element.ranges[i][1] <= element.ranges[i][2]

\* the code points at which membership in a union of the intervals can change
CriticalPoints(intervals) ==
    {0, MAX_CODEPOINT} \cup {r[1] : r \in intervals}
        \cup {r[2] + 1 : r \in {q \in intervals : q[2] < U32_MAX}}

\* the critical points of the first fragment's transitions and of the chars
\* and ranges of its element
FragmentPoints ==
    CriticalPoints(Range(FirstFragmentRanges) \cup Range(FirstElement.ranges)
                       \cup {<<x, x>> : x \in Range(FirstElement.chars)})

\* some ranged transition of the first fragment covers the code point
Covered(c) == \E k \in DOMAIN FirstFragmentRanges : InRange(c, FirstFragmentRanges[k])

\* C16: for a Set whose ranges all have lo <= hi, both endpoints of every
\* range are found in the alphabet, every ranged transition from the
\* fragment's entry to its exit is one alphabet interval, no interval occurs
\* twice, and the transitions cover exactly chars united with the ranges.
C16_SetCoversItsCodePoints ==
    (NfaBuilt /\ rules[1].is_terminal /\ FirstElement.kind = "Set"
        /\ WellOrdered(FirstElement)) =>
        /\ \A i \in DOMAIN FirstElement.ranges :
              /\ \E k \in DOMAIN alphabet : alphabet[k][1] = FirstElement.ranges[i][1]
              /\ \E k \in DOMAIN alphabet : alphabet[k][2] = FirstElement.ranges[i][2]
        /\ \A k \in DOMAIN FirstFragmentRanges : FirstFragmentRanges[k] \in Range(alphabet)
        /\ \A j, k \in DOMAIN FirstFragmentRanges :
              FirstFragmentRanges[j] = FirstFragmentRanges[k] => j = k
        /\ \A c \in FragmentPoints : Covered(c) <=> SetDenotes(c, FirstElement)

\* C17: for a NegatedSet whose ranges all have lo <= hi, the ranged
\* transitions from the fragment's entry to its exit are alphabet intervals,
\* one per interval, and cover exactly the code points of [0, MAX_CODEPOINT]
\* that are neither in chars nor inside one of the ranges.
C17_NegatedSetCoversTheRest ==
    (NfaBuilt /\ rules[1].is_terminal /\ FirstElement.kind = "NegatedSet"
        /\ WellOrdered(FirstElement)) =>
        /\ \A k \in DOMAIN FirstFragmentRanges : FirstFragmentRanges[k] \in Range(alphabet)
        /\ \A j, k \in DOMAIN FirstFragmentRanges :
              FirstFragmentRanges[j] = FirstFragmentRanges[k] => j = k
        /\ \A c \in FragmentPoints :
              Covered(c) <=> (c <= MAX_CODEPOINT /\ ~SetDenotes(c, FirstElement))

\* the iteration orders of a hash set the model distinguishes
HashOrders == {"asc", "desc"}

\* C18: the DFA does not depend on the order in which the hash set of a
\* Set/NegatedSet fragment is iterated: from_rules run with any iteration
\* order gives the outcome of this run, with the same states in the same
\* numbering and the same transition list of every state.
C18_HashOrderIrrelevant ==
    Finished =>
        \A order \in HashOrders :
            LET r == from_rules(rules, overflow_checks, order)
            IN /\ r.result = result
               /\ get_states(r.dfa) = get_states(dfa)
               /\ \A s \in 0..Len(get_states(dfa)) :
                      get_connections(r.dfa, s) = get_connections(dfa, s)

\* a returned DFA whose NFA has another connection list under another
\* iteration order
W_C18 ==
    /\ Finished /\ result = "Ok"
    /\ \E order \in HashOrders :
          construct_nfa(Terminals(rules), alphabet, order).connections # nfa.connections

RECURSIVE Pow2(_)
Pow2(k) == IF k = 0 THEN 1 ELSE 2 * Pow2(k - 1)

\* the registered subsets are pairwise distinct subsets reachable in the NFA,
\* at most 2^|NFA.states| of them; the activations of powerset_construction
\* that have not returned are activations for distinct registered subsets; and
\* once powerset_construction has returned every reachable subset is registered
OncePerSubset ==
    (pc = "powerset" \/ Returned) =>
        /\ \A i, j \in DOMAIN powersets : powersets[i] = powersets[j] => i = j
        /\ Range(powersets) \subseteq ReachableSubsets(nfa, alphabet)
        /\ Len(nfa.states) < 31 => Len(powersets) <= Pow2(Len(nfa.states))
        /\ \A i, j \in DOMAIN stack :
              /\ stack[i].start_closure \in 0..(Len(powersets) - 1)
              /\ stack[i].start_closure = stack[j].start_closure => i = j
        /\ (stack = <<>>) => (Range(powersets) = ReachableSubsets(nfa, alphabet))

\* a step registers a subset exactly when it enters powerset_construction, and
\* it enters it for the subset it registers, at the first alphabet interval
EntersWhatItRegisters ==
    /\ (Len(powersets') # Len(powersets)) <=> (Len(stack') > Len(stack))
    /\ (Len(stack') > Len(stack)) =>
          /\ Len(stack') = Len(stack) + 1
          /\ Len(powersets') = Len(powersets) + 1
          /\ Top(stack') = Frame(Len(powersets), 1, -1)

\* C19: epsilon_closure and powerset_construction terminate, also on NFAs
\* with epsilon cycles: once the NFA is built, from_rules returns;
\* powerset_construction is entered exactly once for each distinct reachable
\* subset, and there are never more than 2^|NFA.states| registered subsets.
C19_TerminatesOncePerSubset ==
    /\ (pc = "nfa") ~> (pc = "returned")
    /\ []OncePerSubset
    /\ [][EntersWhatItRegisters]_vars

\* powerset_construction has returned on an NFA with an epsilon cycle after
\* registering at least three subsets
W_C19 ==
    /\ pc = "returned"
    /\ Len(powersets) >= 3
    /\ \E i, j \in DOMAIN nfa.connections :
          /\ nfa.connections[i].kind = "Epsilon" /\ nfa.connections[j].kind = "Epsilon"
          /\ nfa.connections[i].a = nfa.connections[j].b
          /\ nfa.connections[i].b = nfa.connections[j].a

\* C20: on a rule list of terminal rules from_rules returns a DFA or the
\* ambiguity error: it never panics (arithmetic underflow in
\* construct_alphabet, failed alphabet lookup, slice bounds out of order,
\* failed assertion).
C20_FromRulesNeverPanics ==
    (\A k \in DOMAIN rules : rules[k].is_terminal) => result # "Panic"

\* the code points of the input the Lexer has not handed out yet: the ones
\* waiting in buf (the NUL that the C++ next() pushes at the end of the stream
\* is no code point of the input) and the ones still in the stream
RemainingInput == Len(SelectSeq(buf.data, LAMBDA c : c # 0)) + Len(contents)

\* the pass of the while loop that returns from next()
Returns == lx.at = "loop" /\ lx'.at = "returned"

\* C21: the generated lexer makes progress: the pass of the loop in which a
\* call of next() returns a token other than _EOF leaves fewer code points
\* of the input than there were (the passes before it only move code points
\* from the stream to buf), also when the start state is accepting and when
\* no rule matches at the current position; so on a finite input repeated
\* calls come to return _EOF.
C21_NextMakesProgress ==
    [][(Returns /\ tokens'[Len(tokens')][1] # "_EOF") => RemainingInput' < RemainingInput]_vars

=============================================================================
